---- MODULE Spec2Model ----
(***************************************************************************)
(* Model of the browser-side download controller, static/progress.js:      *)
(* class VideoDownloader (fetchFormats, format rows, startDownload, the    *)
(* 1-second polling timer) and the global resetDownload.                   *)
(*                                                                         *)
(* Every JavaScript handler runs to its first await in one step; the code  *)
(* after an await (the response handling) is a second step that fires     *)
(* when the request resolves.  Requests in flight are part of the state,   *)
(* and they resolve in any order.  The server is an external collaborator: *)
(* its answers are drawn from small sets.                                  *)
(***************************************************************************)
EXTENDS Integers, Sequences, FiniteSets, TLC

\* ------------------------------------------------------------------ bounds
\* number of /download requests the model lets the user issue
MaxDownloads == 2
\* number of /progress requests that may be in flight together
MaxInflight == 2
\* longest format list a /fetch_formats answer carries
MaxFormats == 2

\* ----------------------------------------------------------------- strings
\* Strings the code inspects character by character are tuples of characters.
StrEmpty == << >>
StrAudio == <<"a", "u", "d", "i", "o">>
StrVideo == <<"v", "i", "d", "e", "o">>
StrVideoAudio == <<"v", "i", "d", "e", "o", "+", "a", "u", "d", "i", "o">>
StrMp3 == <<"m", "p", "3">>
StrId22 == <<"2", "2">>
StrId140 == <<"1", "4", "0">>
StrIdMp3 == <<"m", "p", "3", "-", "1">>

\* a value the server left out of its JSON answer (undefined in JavaScript)
Absent == "<absent>"

NoTrim(s) == s

\* String.prototype.trim: strips the white space at both ends
RECURSIVE TrimStart(_)

TrimStart(s) ==
    IF s # << >> /\ Head(s) = " " THEN TrimStart(Tail(s)) ELSE s

RECURSIVE TrimEnd(_)

TrimEnd(s) ==
    IF s # << >> /\ s[Len(s)] = " " THEN TrimEnd(SubSeq(s, 1, Len(s) - 1)) ELSE s

Trim(s) == TrimEnd(TrimStart(s))

\* String.prototype.includes
Includes(s, sub) ==
    \E i \in 0..(Len(s) - Len(sub)) : SubSeq(s, i + 1, i + Len(sub)) = sub

\* assigning to textContent: undefined and null give the empty text
TextContent(v) == IF v = Absent THEN "" ELSE v

\* ------------------------------------------------------------ input domains
\* what the user may have typed in the videoUrl field
UrlInputs == { <<" ">>, <<" ", "a">>, <<"b">> }

\* FormatOption records of the server (the fields the controller acts on)
Formats ==
    { [format_id |-> StrId22, type |-> StrVideoAudio],
      [format_id |-> StrId140, type |-> StrAudio],
      [format_id |-> StrIdMp3, type |-> StrVideo] }

\* a format is identified by its format_id: a list names no format twice
FormatLists ==
    { l \in UNION { [1..n -> Formats] : n \in 0..MaxFormats } :
        \A i, j \in 1..Len(l) : l[i] = l[j] => i = j }

\* data.formats of a successful /fetch_formats answer: a list, or left out
FetchAnswers ==
    { [given |-> TRUE, list |-> l] : l \in FormatLists }
        \cup { [given |-> FALSE, list |-> << >>] }

\* error.message of a failed /fetch_formats exchange: the server's error
\* field, the fallback of line 55, or the transport's own message
FetchErrors == {"server: bad url", "Failed to fetch video information"}

\* error.message of a failed /download exchange (line 235)
DownloadErrors == {"Failed to start download"}

\* DownloadSession-shaped answers of /progress/{id}
ProgressAnswers ==
    { [status |-> "downloading", percent |-> 40, message |-> "Downloading", filename |-> Absent],
      [status |-> "processing", percent |-> 100, message |-> "Processing", filename |-> "v.mp4"],
      [status |-> "completed", percent |-> 100, message |-> "Done", filename |-> "v.mp4"],
      [status |-> "error", percent |-> 40, message |-> "disk full", filename |-> Absent] }

Sections ==
    {"videoInfoCard", "formatsCard", "progressCard",
     "downloadComplete", "downloadError", "progressContent"}

\* -------------------------------------------------------------------- state
VARIABLES
    currentDownloadId,   \* this.currentDownloadId; 0 is null
    progressInterval,    \* this.progressInterval: a timer handle; 0 is null
    activeTimers,        \* the handles of the interval timers that are running
    timersCreated,       \* number of setInterval calls so far (next handle - 1)
    videoUrl,            \* value of the videoUrl text field
    fetchBtn,            \* fetchBtn: [disabled, label]
    downloadBtn,         \* downloadBtn: [disabled, display]
    dnone,               \* section -> whether it carries the class d-none
    videoTitle,          \* videoTitle.textContent
    formatsList,         \* the .format-option rows of formatsList, in order
    noFormatsNotice,     \* whether formatsList holds the warning notice
    selected,            \* indices of the rows carrying the class selected
    checked,             \* index of the row whose radio is checked; 0 is none
    progressFields,      \* what updateProgressUI wrote last
    completedFilename,   \* completedFilename.textContent
    errorMessage,        \* errorMessage.textContent
    lastAlert,           \* text of the most recent alert(); << >> is none
    lastOpened,          \* id of the most recent window.open of /download_file
    fetchReqs,           \* /fetch_formats requests in flight, in issue order
    downloadReqs,        \* /download requests in flight
    downloadsIssued,     \* number of /download requests issued so far
    progressReqs,        \* download id -> number of /progress requests in flight
    consoleErrors        \* whether console.error has logged a failed poll

vars ==
    << currentDownloadId, progressInterval, activeTimers, timersCreated,
       videoUrl, fetchBtn, downloadBtn, dnone, videoTitle, formatsList,
       noFormatsNotice, selected, checked, progressFields, completedFilename,
       errorMessage, lastAlert, lastOpened, fetchReqs, downloadReqs,
       downloadsIssued, progressReqs, consoleErrors >>

\* the controller's fields and every piece of the page the handlers write
controllerVars == << currentDownloadId, progressInterval, activeTimers, timersCreated >>

uiVars ==
    << fetchBtn, downloadBtn, dnone, videoTitle, formatsList, noFormatsNotice,
       selected, checked, progressFields, completedFilename, errorMessage >>

\* what the user is told outside the page: alerts, opened files, the console
outVars == << lastAlert, lastOpened, consoleErrors >>

netVars == << fetchReqs, downloadReqs, downloadsIssued, progressReqs >>

DownloadIds == 1..MaxDownloads


InflightProgress ==
    LET RECURSIVE Sum(_)
        Sum(S) == IF S = {} THEN 0
                  ELSE LET x == CHOOSE y \in S : TRUE
                       IN progressReqs[x] + Sum(S \ {x})
    IN Sum(DownloadIds)

\* --------------------------------------------------------------------- Init
\* The page as loaded: the dynamic sections hidden, nothing fetched, the
\* controller as its constructor leaves it.
Init ==
    /\ currentDownloadId = 0
    /\ progressInterval = 0
    /\ activeTimers = {}
    /\ timersCreated = 0
    /\ videoUrl \in UrlInputs
    /\ fetchBtn = [disabled |-> FALSE, label |-> "Fetch Formats"]
    /\ downloadBtn = [disabled |-> FALSE, display |-> ""]
    /\ dnone = [s \in Sections |-> s # "progressContent"]
    /\ videoTitle = StrEmpty
    /\ formatsList = << >>
    /\ noFormatsNotice = FALSE
    /\ selected = {}
    /\ checked = 0
    /\ progressFields = [ percent |-> 0, statusMessage |-> "", currentFilename |-> "-",
                          barClass |-> "" ]
    /\ completedFilename = ""
    /\ errorMessage = ""
    /\ lastAlert = << >>
    /\ lastOpened = 0
    /\ fetchReqs = << >>
    /\ downloadReqs = {}
    /\ downloadsIssued = 0
    /\ progressReqs = [i \in DownloadIds |-> 0]
    /\ consoleErrors = FALSE

\* ------------------------------------------------------------------ helpers
\* showError: alert(`Error: ${message}`)
showError(message) == <<"Error: ", message>>

\* resetUI: hides the five dynamic sections, shows progressContent
resetUI(d) == [s \in Sections |-> s # "progressContent"]

\* displayVideoInfo: shows the video info card
displayVideoInfo(d) == [d EXCEPT !["videoInfoCard"] = FALSE]

SelectedNotCleared(sel, rows, i) == sel \cup {i}

\* the click listener of a format row: clears the selected marker from every
\* row, then marks the clicked one
SelectedAfterClick(sel, rows, i) == (sel \ (1..Len(rows))) \cup {i}

\* radio.checked = true: the radios share the name "format", so checking one
\* unchecks the others
CheckedAfterClick(chk, i) == i

\* displayFormats, the test of line 103
NoFormats(formats) == ~formats.given \/ Len(formats.list) = 0

RowsAppended(rows, formats) ==
    IF NoFormats(formats) THEN << >> ELSE rows \o formats.list

\* displayFormats: formatsList.innerHTML = '' drops the earlier rows, then one
\* row is appended per format
RowsAfterDisplay(rows, formats) ==
    IF NoFormats(formats) THEN << >> ELSE << >> \o formats.list

DisplayAlwaysBlock(formats) == "block"

\* displayFormats: the display style of the download button
DisplayAfterFormats(formats) == IF NoFormats(formats) THEN "none" ELSE "block"

\* displayFormats: firstFormat.click() on the first .format-option
SelectedAfterDisplay(formats) ==
    IF NoFormats(formats) THEN {} ELSE SelectedAfterClick({}, formats.list, 1)

CheckedAfterDisplay(formats) ==
    IF NoFormats(formats) THEN 0 ELSE CheckedAfterClick(0, 1)

\* displayFormats: the formats card is shown after the rows are rendered
SectionsAfterFormats(d, formats) ==
    IF NoFormats(formats) THEN d ELSE [d EXCEPT !["formatsCard"] = FALSE]

\* getDownloadType
getDownloadType(formatType) ==
    IF formatType = StrAudio \/ Includes(formatType, StrMp3) THEN "audio" ELSE "video"

\* startDownload, lines 210-214: the progress card with its live content
SectionsAfterStart(d) ==
    [d EXCEPT !["progressCard"] = FALSE, !["progressContent"] = FALSE,
              !["downloadComplete"] = TRUE, !["downloadError"] = TRUE]

\* clearInterval: an unknown or cleared handle is ignored
clearInterval(timers, handle) == timers \ {handle}

TimersNotCleared(timers, stored) == timers

\* startProgressTracking, lines 256-258: the stored timer is cleared first
TimersAfterClear(timers, stored) ==
    IF stored # 0 THEN clearInterval(timers, stored) ELSE timers

\* startDownload, line 238: the id that is tracked from now on
TrackedKept(tracked, answered) == tracked

TrackedAfterAnswer(tracked, answered) == answered

PolledFirstId(tracked) == 1

\* the timer callback, line 264: the id whose progress is requested
PolledId(tracked) == tracked

\* updateProgressUI: the colour class of the progress bar
BarClass(status) ==
    CASE status = "downloading" -> "bg-primary"
      [] status = "processing" -> "bg-warning"
      [] status = "error" -> "bg-danger"
      [] status = "completed" -> "bg-success"
      [] OTHER -> ""

\* updateProgressUI: the fields of the progress display
updateProgressUI(progress) ==
    [ percent |-> progress.percent,
      statusMessage |-> TextContent(progress.message),
      currentFilename |-> IF progress.filename = Absent THEN "-" ELSE progress.filename,
      barClass |-> BarClass(progress.status) ]

\* showDownloadComplete
showDownloadComplete(d) ==
    [d EXCEPT !["progressContent"] = TRUE, !["downloadComplete"] = FALSE]

\* showProgressError
showProgressError(d) ==
    [d EXCEPT !["progressContent"] = TRUE, !["downloadError"] = FALSE]

TimersClearedOnErrorOnly(timers, stored, status) ==
    IF status = "error" THEN clearInterval(timers, stored) ELSE timers

TimersClearedOnCompletedOnly(timers, stored, status) ==
    IF status = "completed" THEN clearInterval(timers, stored) ELSE timers

\* the timer callback after its await: which timers still run once the answer
\* has been handled
TimersAfterAnswer(timers, stored, status) ==
    IF status \in {"completed", "error"} THEN clearInterval(timers, stored) ELSE timers

\* the timer callback after its await: the sections once the answer is handled
SectionsAfterAnswer(d, status) ==
    CASE status = "completed" -> showDownloadComplete(d)
      [] status = "error" -> showProgressError(d)
      [] OTHER -> d

\* the timer callback after its await: downloadBtn.disabled
DisabledKeptOnError(disabled, status) ==
    IF status = "completed" THEN FALSE ELSE disabled

DisabledAfterAnswer(disabled, status) ==
    IF status \in {"completed", "error"} THEN FALSE ELSE disabled

\* resetDownload hiding what resetUI hides
resetDownloadAsResetUI(d) == resetUI(d)

\* resetDownload
resetDownload(d) == [d EXCEPT !["progressCard"] = TRUE, !["downloadError"] = TRUE]

\* ------------------------------------------------------------------ actions
\* the user edits the videoUrl text field
EditUrl(u) ==
    /\ u # videoUrl
    /\ videoUrl' = u
    /\ UNCHANGED << controllerVars, uiVars, netVars, outVars >>

\* The page markup: fetchBtn is the submit button of urlForm, and a form whose
\* submit button is disabled is not submitted, by a click or by Enter.
UrlFormSubmittable == ~fetchBtn.disabled

\* fetchBtn while a fetchFormats call runs, left enabled
FetchBtnBusyEnabled == [disabled |-> FALSE, label |-> "Fetching..."]

\* fetchFormats: fetchBtn.disabled = true; fetchBtn.textContent = 'Fetching...'
FetchBtnBusy == [disabled |-> TRUE, label |-> "Fetching..."]

\* fetchBtn after the finally block, left disabled
FetchBtnStuck == [disabled |-> TRUE, label |-> "Fetch Formats"]

\* fetchFormats, finally: fetchBtn.disabled = false; textContent = 'Fetch Formats'
FetchBtnIdle == [disabled |-> FALSE, label |-> "Fetch Formats"]

\* fetchFormats up to its first await
FetchFormats ==
    /\ UrlFormSubmittable
    /\ IF Trim(videoUrl) = StrEmpty
       THEN /\ lastAlert' = showError("Please enter a video URL")
            /\ UNCHANGED << controllerVars, uiVars, netVars, videoUrl, lastOpened,
                            consoleErrors >>
       ELSE /\ dnone' = resetUI(dnone)
            /\ fetchBtn' = FetchBtnBusy
            /\ fetchReqs' = Append(fetchReqs, [url |-> Trim(videoUrl)])
            /\ UNCHANGED << controllerVars, outVars, videoUrl, downloadBtn, videoTitle,
                            formatsList, noFormatsNotice, selected, checked,
                            progressFields, completedFilename, errorMessage,
                            downloadReqs, downloadsIssued, progressReqs >>

RemoveAt(s, i) == SubSeq(s, 1, i - 1) \o SubSeq(s, i + 1, Len(s))

\* fetchFormats after its awaits, response.ok: displayVideoInfo, displayFormats,
\* finally.  The title the server reports for a URL stands for that URL.
FetchAnswered(i, formats) ==
    /\ i \in 1..Len(fetchReqs)
    /\ fetchReqs' = RemoveAt(fetchReqs, i)
    /\ videoTitle' = fetchReqs[i].url
    /\ formatsList' = RowsAfterDisplay(formatsList, formats)
    /\ noFormatsNotice' = NoFormats(formats)
    /\ downloadBtn' = [downloadBtn EXCEPT !.display = DisplayAfterFormats(formats)]
    /\ selected' = SelectedAfterDisplay(formats)
    /\ checked' = CheckedAfterDisplay(formats)
    /\ dnone' = SectionsAfterFormats(displayVideoInfo(dnone), formats)
    /\ fetchBtn' = FetchBtnIdle
    /\ UNCHANGED << controllerVars, outVars, videoUrl, progressFields,
                    completedFilename, errorMessage, downloadReqs, downloadsIssued,
                    progressReqs >>

\* fetchFormats after its awaits, the catch branch: a non-2xx answer, a
\* transport failure or an unparsable body
FetchFailed(i, message) ==
    /\ i \in 1..Len(fetchReqs)
    /\ fetchReqs' = RemoveAt(fetchReqs, i)
    /\ lastAlert' = showError(message)
    /\ fetchBtn' = FetchBtnIdle
    /\ UNCHANGED << controllerVars, videoUrl, downloadBtn, dnone, videoTitle,
                    formatsList, noFormatsNotice, selected, checked, progressFields,
                    completedFilename, errorMessage, lastOpened, consoleErrors,
                    downloadReqs, downloadsIssued, progressReqs >>

\* a click on format row i (the row, its label or its radio)
ClickFormat(i) ==
    /\ i \in 1..Len(formatsList)
    /\ selected' = SelectedAfterClick(selected, formatsList, i)
    /\ checked' = CheckedAfterClick(checked, i)
    /\ UNCHANGED << controllerVars, netVars, outVars, videoUrl, fetchBtn, downloadBtn,
                    dnone, videoTitle, formatsList, noFormatsNotice, progressFields,
                    completedFilename, errorMessage >>

\* startDownload up to its first await.  A disabled button dispatches no click.
StartDownload ==
    /\ ~downloadBtn.disabled
    /\ IF checked = 0
       THEN /\ lastAlert' = showError("Please select a format")
            /\ UNCHANGED << controllerVars, uiVars, netVars, videoUrl, lastOpened,
                            consoleErrors >>
       ELSE /\ downloadsIssued < MaxDownloads
            /\ downloadsIssued' = downloadsIssued + 1
            /\ downloadReqs' = downloadReqs \cup
                   { [ n |-> downloadsIssued + 1,
                       url |-> Trim(videoUrl),
                       format_id |-> formatsList[checked].format_id,
                       type |-> getDownloadType(formatsList[checked].type) ] }
            /\ dnone' = SectionsAfterStart(dnone)
            /\ downloadBtn' = [downloadBtn EXCEPT !.disabled = TRUE]
            /\ UNCHANGED << controllerVars, outVars, videoUrl, fetchBtn, videoTitle,
                            formatsList, noFormatsNotice, selected, checked,
                            progressFields, completedFilename, errorMessage,
                            fetchReqs, progressReqs >>

\* startDownload after its awaits, response.ok: the server's download_id is
\* recorded (the n-th request is answered with id n) and startProgressTracking
\* runs
DownloadAnswered(r) ==
    /\ r \in downloadReqs
    /\ downloadReqs' = downloadReqs \ {r}
    /\ currentDownloadId' = TrackedAfterAnswer(currentDownloadId, r.n)
    /\ activeTimers' = TimersAfterClear(activeTimers, progressInterval)
                           \cup {timersCreated + 1}
    /\ progressInterval' = timersCreated + 1
    /\ timersCreated' = timersCreated + 1
    /\ UNCHANGED << uiVars, outVars, videoUrl, fetchReqs, downloadsIssued,
                    progressReqs >>

\* startDownload after its awaits, the catch branch
DownloadFailed(r, message) ==
    /\ r \in downloadReqs
    /\ downloadReqs' = downloadReqs \ {r}
    /\ dnone' = showProgressError(dnone)
    /\ errorMessage' = TextContent(message)
    /\ downloadBtn' = [downloadBtn EXCEPT !.disabled = FALSE]
    /\ UNCHANGED << controllerVars, outVars, videoUrl, fetchBtn, videoTitle,
                    formatsList, noFormatsNotice, selected, checked, progressFields,
                    completedFilename, fetchReqs, downloadsIssued, progressReqs >>

\* one firing of interval timer h, up to the await of its callback
Tick(h) ==
    /\ h \in activeTimers
    /\ IF currentDownloadId = 0
       THEN UNCHANGED progressReqs
       ELSE /\ InflightProgress < MaxInflight
            /\ progressReqs' =
                   [progressReqs EXCEPT ![PolledId(currentDownloadId)] = @ + 1]
    /\ UNCHANGED << controllerVars, uiVars, outVars, videoUrl, fetchReqs,
                    downloadReqs, downloadsIssued >>

\* the timer callback after its awaits: a parsed answer of /progress/{id}
ProgressAnswered(id, progress) ==
    /\ progressReqs[id] > 0
    /\ progressReqs' = [progressReqs EXCEPT ![id] = @ - 1]
    /\ progressFields' = updateProgressUI(progress)
    /\ activeTimers' = TimersAfterAnswer(activeTimers, progressInterval, progress.status)
    /\ dnone' = SectionsAfterAnswer(dnone, progress.status)
    /\ completedFilename' =
           IF progress.status = "completed"
           THEN TextContent(progress.filename) ELSE completedFilename
    /\ errorMessage' =
           IF progress.status = "error"
           THEN TextContent(progress.message) ELSE errorMessage
    /\ downloadBtn' =
           [downloadBtn EXCEPT !.disabled = DisabledAfterAnswer(@, progress.status)]
    /\ UNCHANGED << currentDownloadId, progressInterval, timersCreated, outVars,
                    videoUrl, fetchBtn, videoTitle, formatsList, noFormatsNotice,
                    selected, checked, fetchReqs, downloadReqs, downloadsIssued >>

ProgressFailedGivesUp(id) ==
    /\ progressReqs[id] > 0
    /\ progressReqs' = [progressReqs EXCEPT ![id] = @ - 1]
    /\ consoleErrors' = TRUE
    /\ activeTimers' = clearInterval(activeTimers, progressInterval)
    /\ dnone' = showProgressError(dnone)
    /\ UNCHANGED << currentDownloadId, progressInterval, timersCreated, fetchBtn,
                    downloadBtn, videoTitle, formatsList, noFormatsNotice, selected,
                    checked, progressFields, completedFilename, errorMessage,
                    videoUrl, lastAlert, lastOpened, fetchReqs, downloadReqs,
                    downloadsIssued >>

\* the timer callback after its awaits, the catch branch: the request failed
\* or its body did not parse; console.error only
ProgressFailed(id) ==
    /\ progressReqs[id] > 0
    /\ progressReqs' = [progressReqs EXCEPT ![id] = @ - 1]
    /\ consoleErrors' = TRUE
    /\ UNCHANGED << controllerVars, uiVars, videoUrl, lastAlert, lastOpened,
                    fetchReqs, downloadReqs, downloadsIssued >>

\* the global resetDownload
ResetDownload ==
    /\ dnone' = resetDownload(dnone)
    /\ downloadBtn' = [downloadBtn EXCEPT !.disabled = FALSE]
    /\ UNCHANGED << controllerVars, netVars, outVars, videoUrl, fetchBtn, videoTitle,
                    formatsList, noFormatsNotice, selected, checked, progressFields,
                    completedFilename, errorMessage >>

\* the click listener of downloadFileBtn
OpenDownloadedFile ==
    /\ currentDownloadId # 0
    /\ lastOpened' = currentDownloadId
    /\ UNCHANGED << controllerVars, uiVars, netVars, videoUrl, lastAlert,
                    consoleErrors >>

Next ==
    \/ \E u \in UrlInputs : EditUrl(u)
    \/ FetchFormats
    \/ \E i \in 1..Len(fetchReqs), formats \in FetchAnswers : FetchAnswered(i, formats)
    \/ \E i \in 1..Len(fetchReqs), message \in FetchErrors : FetchFailed(i, message)
    \/ \E i \in 1..Len(formatsList) : ClickFormat(i)
    \/ StartDownload
    \/ \E r \in downloadReqs : DownloadAnswered(r)
    \/ \E r \in downloadReqs, message \in DownloadErrors : DownloadFailed(r, message)
    \/ \E h \in activeTimers : Tick(h)
    \/ \E id \in DownloadIds, progress \in ProgressAnswers : ProgressAnswered(id, progress)
    \/ \E id \in DownloadIds : ProgressFailed(id)
    \/ ResetDownload
    \/ OpenDownloadedFile

Spec == Init /\ [][Next]_vars

\* ------------------------------------------------------- the polling session
\* The download session and its polling loop under every interleaving of
\* fetches, downloads, resets, timer firings and answers.  The page data is
\* held to one URL and one list of one format: the polling code reads neither
\* the URL nor the rows.
PollUrl == <<"b">>

PollFormats ==
    [given |-> TRUE, list |-> << [format_id |-> StrId22, type |-> StrVideoAudio] >>]

PollFetchError == "Failed to fetch video information"

InitPoll == Init /\ videoUrl = PollUrl

NextPoll ==
    \/ FetchFormats
    \/ \E i \in 1..Len(fetchReqs) : FetchAnswered(i, PollFormats)
    \/ \E i \in 1..Len(fetchReqs) : FetchFailed(i, PollFetchError)
    \/ StartDownload
    \/ \E r \in downloadReqs : DownloadAnswered(r)
    \/ \E r \in downloadReqs, message \in DownloadErrors : DownloadFailed(r, message)
    \/ \E h \in activeTimers : Tick(h)
    \/ \E id \in DownloadIds, progress \in ProgressAnswers : ProgressAnswered(id, progress)
    \/ \E id \in DownloadIds : ProgressFailed(id)
    \/ ResetDownload
    \/ OpenDownloadedFile

SpecPoll == InitPoll /\ [][NextPoll]_vars

\* ------------------------------------------------- fetching and selecting
\* Fetching, rendering and selecting formats and starting downloads, over every
\* URL text and format list of the input domains.  The timers a download
\* starts are created but their firings are left out: no firing and no
\* /progress answer reads or writes the URL field, the rows or the selection.
NextFormats ==
    \/ \E u \in UrlInputs : EditUrl(u)
    \/ FetchFormats
    \/ \E i \in 1..Len(fetchReqs), formats \in FetchAnswers : FetchAnswered(i, formats)
    \/ \E i \in 1..Len(fetchReqs), message \in FetchErrors : FetchFailed(i, message)
    \/ \E i \in 1..Len(formatsList) : ClickFormat(i)
    \/ StartDownload
    \/ \E r \in downloadReqs : DownloadAnswered(r)
    \/ \E r \in downloadReqs, message \in DownloadErrors : DownloadFailed(r, message)

SpecFormats == Init /\ [][NextFormats]_vars

\* --------------------------------------------------------- local validation
\* The two handlers that validate before they send, fetchFormats and
\* startDownload, called in every state of a session: with and without a
\* tracked download, a running timer, requests in flight and rendered rows.
\* The URL text is empty after trimming or not, the format list has one format
\* or none.  Polls are sent and fail; resetDownload is what re-enables the
\* download button here.
LocalUrls == { <<" ">>, <<"b">> }

LocalFormats == { PollFormats, [given |-> TRUE, list |-> << >>] }

NextLocal ==
    \/ \E u \in LocalUrls : EditUrl(u)
    \/ FetchFormats
    \/ \E i \in 1..Len(fetchReqs), formats \in LocalFormats : FetchAnswered(i, formats)
    \/ \E i \in 1..Len(fetchReqs) : FetchFailed(i, PollFetchError)
    \/ StartDownload
    \/ \E r \in downloadReqs : DownloadAnswered(r)
    \/ \E r \in downloadReqs, message \in DownloadErrors : DownloadFailed(r, message)
    \/ \E h \in activeTimers : Tick(h)
    \/ \E id \in DownloadIds : ProgressFailed(id)
    \/ ResetDownload

InitLocal == Init /\ videoUrl \in LocalUrls

SpecLocal == InitLocal /\ [][NextLocal]_vars

\* ------------------------------------------------------- one thing at a time
\* The polling session with a user who starts a fetch only when no /download
\* request is outstanding, and a download only when no /fetch_formats request
\* is: while a fetch is outstanding, the tracked download is the one that was
\* tracked when that fetch was started.
NextTurns ==
    \/ FetchFormats /\ downloadReqs = {}
    \/ \E i \in 1..Len(fetchReqs) : FetchAnswered(i, PollFormats)
    \/ \E i \in 1..Len(fetchReqs) : FetchFailed(i, PollFetchError)
    \/ StartDownload /\ fetchReqs = << >>
    \/ \E r \in downloadReqs : DownloadAnswered(r)
    \/ \E r \in downloadReqs, message \in DownloadErrors : DownloadFailed(r, message)
    \/ \E h \in activeTimers : Tick(h)
    \/ \E id \in DownloadIds, progress \in ProgressAnswers : ProgressAnswered(id, progress)
    \/ \E id \in DownloadIds : ProgressFailed(id)
    \/ ResetDownload

SpecTurns == InitPoll /\ [][NextTurns]_vars

\* ------------------------------------------------------------ a fair session
\* The polling session without resetDownload and the download-file button,
\* in which the server and the user keep going: every
\* request is answered or fails, a submitted fetch is answered with formats
\* again and again, a running timer keeps firing, and a poll is answered
\* "completed" or "error" again and again.  The user submits the form whenever
\* it can be submitted.  These conditions restrict no finite run of SpecPoll,
\* so what eventually happens in every fair run can happen from every
\* reachable state.
Terminal == { progress \in ProgressAnswers : progress.status \in {"completed", "error"} }

FairPoll ==
    /\ WF_vars(FetchFormats)
    /\ SF_vars(\E i \in 1..Len(fetchReqs) : FetchAnswered(i, PollFormats))
    /\ WF_vars(\E r \in downloadReqs : DownloadAnswered(r))
    /\ SF_vars(\E h \in activeTimers : Tick(h))
    /\ SF_vars(\E id \in DownloadIds, progress \in Terminal : ProgressAnswered(id, progress))

NextFair ==
    \/ FetchFormats
    \/ \E i \in 1..Len(fetchReqs) : FetchAnswered(i, PollFormats)
    \/ \E i \in 1..Len(fetchReqs) : FetchFailed(i, PollFetchError)
    \/ StartDownload
    \/ \E r \in downloadReqs : DownloadAnswered(r)
    \/ \E r \in downloadReqs, message \in DownloadErrors : DownloadFailed(r, message)
    \/ \E h \in activeTimers : Tick(h)
    \/ \E id \in DownloadIds, progress \in ProgressAnswers : ProgressAnswered(id, progress)
    \/ \E id \in DownloadIds : ProgressFailed(id)

SpecFair == InitPoll /\ [][NextFair]_vars /\ FairPoll

\* ------------------------------------------------------------ late answers
\* The polling session with a user who starts no download while a fetch is
\* outstanding: a /download request that is outstanding together with a
\* /fetch_formats request was sent before that fetch was started.
NextLate ==
    \/ FetchFormats
    \/ \E i \in 1..Len(fetchReqs) : FetchAnswered(i, PollFormats)
    \/ \E i \in 1..Len(fetchReqs) : FetchFailed(i, PollFetchError)
    \/ StartDownload /\ fetchReqs = << >>
    \/ \E r \in downloadReqs : DownloadAnswered(r)
    \/ \E r \in downloadReqs, message \in DownloadErrors : DownloadFailed(r, message)
    \/ \E h \in activeTimers : Tick(h)
    \/ \E id \in DownloadIds, progress \in ProgressAnswers : ProgressAnswered(id, progress)
    \/ \E id \in DownloadIds : ProgressFailed(id)
    \/ ResetDownload

SpecLate == InitPoll /\ [][NextLate]_vars

\* ------------------------------------------------------ a consistent server
\* The polling session with a server that reports one terminal status per
\* download: completed and error are terminal states of a download session,
\* so no download is reported completed in one answer and failed in another.
\* Here the downloads with an odd id complete and those with an even id fail.
Outcome(id) == IF id % 2 = 1 THEN "completed" ELSE "error"

ServerAnswers(id) ==
    { progress \in ProgressAnswers :
          progress.status \in {"downloading", "processing", Outcome(id)} }

NextServer ==
    \/ FetchFormats
    \/ \E i \in 1..Len(fetchReqs) : FetchAnswered(i, PollFormats)
    \/ \E i \in 1..Len(fetchReqs) : FetchFailed(i, PollFetchError)
    \/ StartDownload
    \/ \E r \in downloadReqs : DownloadAnswered(r)
    \/ \E r \in downloadReqs, message \in DownloadErrors : DownloadFailed(r, message)
    \/ \E h \in activeTimers : Tick(h)
    \/ \E id \in DownloadIds : \E progress \in ServerAnswers(id) :
           ProgressAnswered(id, progress)
    \/ \E id \in DownloadIds : ProgressFailed(id)
    \/ ResetDownload
    \/ OpenDownloadedFile

SpecServer == InitPoll /\ [][NextServer]_vars

\* ------------------------------------------------------------------ claims
TypeOK ==
    /\ currentDownloadId \in 0..MaxDownloads
    /\ progressInterval \in 0..MaxDownloads
    /\ activeTimers \subseteq 1..MaxDownloads
    /\ checked \in 0..Len(formatsList)
    /\ selected \subseteq 1..Len(formatsList)

\* a /progress request for download id i is issued in this step
Issued(i) == progressReqs'[i] > progressReqs[i]

\* C1, as stated: once a later download has been started (its /download
\* request is outstanding), no /progress request is issued for the earlier
\* download id.
C1_AsStated ==
    [][\A i \in DownloadIds : Issued(i) => ~(\E r \in downloadReqs : r.n > i)]_vars

\* C1, amended: when the /download answer of a later download is handled, the
\* id it carries becomes the tracked one and the timer that was running is
\* cancelled, the new timer being the only one; every /progress request is
\* issued for the id tracked at that moment, so none is issued for the
\* replaced id from that answer on.
C1_TrackedOnly ==
    [][ /\ \A r \in downloadReqs :
              DownloadAnswered(r) =>
                  /\ currentDownloadId' = r.n
                  /\ activeTimers' = {progressInterval'}
                  /\ progressInterval \notin activeTimers'
        /\ \A i \in DownloadIds : Issued(i) => i = currentDownloadId ]_vars

\* a second download is tracked by the second timer and polled, while a poll
\* of the first one is still in flight
C1_Witness ==
    /\ currentDownloadId = 2
    /\ timersCreated = 2
    /\ activeTimers = {2}
    /\ progressReqs[1] > 0
    /\ progressReqs[2] > 0

\* C2: in every reachable state at most one interval timer is running.
C2_AtMostOneTimer == Cardinality(activeTimers) <= 1

\* a second tracking session has started and one timer runs
C2_Witness == timersCreated = 2 /\ Cardinality(activeTimers) = 1

\* /progress requests come from timer firings only: none is issued while no
\* timer runs
IssuedOnlyByTimer == \A i \in DownloadIds : Issued(i) => activeTimers # {}

\* C3: handling a /progress answer with status completed leaves no timer
\* running, the completion view shown in place of the live progress, the
\* filename of the answer in it, and the download button enabled; no /progress
\* request is issued while no timer runs.
C3_Completed ==
    [][ /\ \A id \in DownloadIds, progress \in ProgressAnswers :
              (progress.status = "completed" /\ ProgressAnswered(id, progress)) =>
                  /\ activeTimers' = {}
                  /\ ~dnone'["downloadComplete"]
                  /\ dnone'["progressContent"]
                  /\ completedFilename' = progress.filename
                  /\ ~downloadBtn'.disabled
        /\ IssuedOnlyByTimer ]_vars

\* the completion view after a completed answer stopped the polling
C3_Witness ==
    /\ ~dnone["downloadComplete"]
    /\ completedFilename = "v.mp4"
    /\ progressFields.barClass = "bg-success"
    /\ timersCreated > 0
    /\ activeTimers = {}
    /\ ~downloadBtn.disabled

\* C4: handling a /progress answer with status error leaves no timer running,
\* the error view shown in place of the live progress, the message of the
\* answer in it, and the download button enabled; no /progress request is
\* issued while no timer runs.
C4_Error ==
    [][ /\ \A id \in DownloadIds, progress \in ProgressAnswers :
              (progress.status = "error" /\ ProgressAnswered(id, progress)) =>
                  /\ activeTimers' = {}
                  /\ ~dnone'["downloadError"]
                  /\ dnone'["progressContent"]
                  /\ errorMessage' = progress.message
                  /\ ~downloadBtn'.disabled
        /\ IssuedOnlyByTimer ]_vars

\* the error view after an error answer stopped the polling
C4_Witness ==
    /\ ~dnone["downloadError"]
    /\ errorMessage = "disk full"
    /\ progressFields.barClass = "bg-danger"
    /\ timersCreated > 0
    /\ activeTimers = {}
    /\ ~downloadBtn.disabled

\* C5: a failed poll changes neither the controller nor the page; the timers
\* change only when a /download answer starts tracking or a completed or error
\* answer is handled, and the error view appears only with an error answer or
\* a failed /download: with every poll failing the loop runs on and shows no
\* error.
C5_FailedPoll ==
    [][ /\ \A id \in DownloadIds :
              ProgressFailed(id) => UNCHANGED << controllerVars, uiVars, lastAlert >>
        /\ activeTimers' # activeTimers =>
              \/ \E r \in downloadReqs : DownloadAnswered(r)
              \/ \E id \in DownloadIds, progress \in ProgressAnswers :
                     /\ progress.status \in {"completed", "error"}
                     /\ ProgressAnswered(id, progress)
        /\ (dnone["downloadError"] /\ ~dnone'["downloadError"]) =>
              \/ \E r \in downloadReqs, message \in DownloadErrors :
                     DownloadFailed(r, message)
              \/ \E id \in DownloadIds, progress \in ProgressAnswers :
                     progress.status = "error" /\ ProgressAnswered(id, progress) ]_vars

\* polls have failed, none is in flight, the timer still runs and no error or
\* completion view is shown
C5_Witness ==
    /\ consoleErrors
    /\ progressInterval \in activeTimers
    /\ InflightProgress = 0
    /\ dnone["downloadError"]
    /\ dnone["downloadComplete"]
    /\ ~dnone["progressContent"]

\* the format the server describes under a format_id
FormatOf(format_id) == CHOOSE f \in Formats : f.format_id = format_id

\* C6, as stated: the kind sent with every /download request is audio for a
\* format of type audio, video for a format of type video or video+audio, and
\* audio for a format whose format_id contains "mp3", whatever its type.
C6_AsStated ==
    \A r \in downloadReqs :
        LET f == FormatOf(r.format_id) IN
            /\ Includes(f.format_id, StrMp3) => r.type = "audio"
            /\ f.type = StrAudio => r.type = "audio"
            /\ (f.type \in {StrVideo, StrVideoAudio} /\ ~Includes(f.format_id, StrMp3))
                   => r.type = "video"

\* what the code does with the same requests: the kind follows the declared
\* type alone
C6_ByDeclaredType ==
    \A r \in downloadReqs :
        LET f == FormatOf(r.format_id) IN
            r.type = IF f.type = StrAudio THEN "audio" ELSE "video"

\* C7: handling a /fetch_formats answer with N >= 1 formats leaves exactly the
\* N rows of that answer, in its order, the first one alone selected and its
\* radio checked, the download button displayed and the formats card shown.
C7_Rendered ==
    [][ \A i \in 1..Len(fetchReqs), formats \in FetchAnswers :
            (formats.given /\ Len(formats.list) >= 1 /\ FetchAnswered(i, formats)) =>
                /\ formatsList' = formats.list
                /\ Len(formatsList') = Len(formats.list)
                /\ selected' = {1}
                /\ checked' = 1
                /\ ~noFormatsNotice'
                /\ downloadBtn'.display = "block"
                /\ ~dnone'["formatsCard"] ]_vars

\* an answer with two formats has been rendered: two rows, the first selected,
\* the card and the button shown, the fetch button enabled again
C7_Witness ==
    /\ Len(formatsList) = 2
    /\ formatsList[1].format_id = StrId140
    /\ formatsList[2].format_id = StrIdMp3
    /\ selected = {1}
    /\ checked = 1
    /\ videoTitle = <<"b">>
    /\ downloadBtn.display = "block"
    /\ ~dnone["formatsCard"]
    /\ ~fetchBtn.disabled

\* at most one row is selected, and it is the row of the checked radio
OneSelected ==
    /\ Cardinality(selected) <= 1
    /\ selected = IF checked = 0 THEN {} ELSE {checked}

\* C8: a click on row i leaves row i the only selected row, with its radio
\* checked; in every reachable state at most one row is selected and the
\* checked radio is the one of that row.
C8_ClickSelects ==
    /\ []OneSelected
    /\ [][ \A i \in 1..Len(formatsList) :
               ClickFormat(i) => (selected' = {i} /\ checked' = i) ]_vars

\* the second of two rows is selected, the first one having been selected by
\* the rendering
C8_Witness ==
    /\ Len(formatsList) = 2
    /\ selected = {2}
    /\ checked = 2

\* C9: handling a /fetch_formats answer with no formats (an empty list, or
\* none) leaves the download button hidden, no row, the warning notice, and
\* nothing selected; a /download request is issued only with a radio checked,
\* and a radio gets checked only by a click on a row or by an answer with
\* formats.
C9_NoFormats ==
    [][ /\ \A i \in 1..Len(fetchReqs), formats \in FetchAnswers :
              ((~formats.given \/ Len(formats.list) = 0) /\ FetchAnswered(i, formats)) =>
                  /\ downloadBtn'.display = "none"
                  /\ formatsList' = << >>
                  /\ noFormatsNotice'
                  /\ selected' = {}
                  /\ checked' = 0
        /\ downloadsIssued' # downloadsIssued => checked # 0
        /\ downloadReqs' \subseteq downloadReqs \/ checked # 0
        /\ (checked = 0 /\ checked' # 0) =>
              \E i \in 1..Len(fetchReqs), formats \in FetchAnswers :
                  formats.given /\ Len(formats.list) >= 1 /\ FetchAnswered(i, formats) ]_vars

\* after a fetch with formats, a fetch without: the button is hidden, nothing
\* is selected, and startDownload has been refused
C9_Witness ==
    /\ noFormatsNotice
    /\ formatsList = << >>
    /\ checked = 0
    /\ downloadBtn.display = "none"
    /\ videoTitle # StrEmpty
    /\ lastAlert = showError("Please select a format")
    /\ downloadReqs = {}

\* a text of white space only: empty once trimmed
Blank(s) == \A i \in 1..Len(s) : s[i] = " "

\* C10: fetchFormats with a URL that is empty after trimming, and
\* startDownload with no radio checked, change neither the controller
\* (currentDownloadId, the timer) nor the page nor the requests in flight, and
\* issue no request; the alert is all they raise.
C10_LocalValidation ==
    [][ /\ (FetchFormats /\ Blank(videoUrl)) =>
               /\ UNCHANGED << controllerVars, uiVars, netVars, videoUrl >>
               /\ lastAlert' = showError("Please enter a video URL")
        /\ (StartDownload /\ checked = 0) =>
               /\ UNCHANGED << controllerVars, uiVars, netVars, videoUrl >>
               /\ lastAlert' = showError("Please select a format") ]_vars

\* fetchFormats has refused a blank URL while a download is tracked, its timer
\* runs, a poll is in flight and no radio is checked
C10_Witness ==
    /\ lastAlert = showError("Please enter a video URL")
    /\ videoUrl = <<" ">>
    /\ checked = 0
    /\ currentDownloadId # 0
    /\ activeTimers # {}
    /\ InflightProgress > 0

\* startDownload has refused to start with no radio checked while a download
\* is tracked and its timer runs
C10_WitnessStart ==
    /\ lastAlert = showError("Please select a format")
    /\ checked = 0
    /\ currentDownloadId # 0
    /\ activeTimers # {}

\* C11, as stated, for a new fetch: once fetchFormats has sent its request, no
\* /progress request is issued for the download that was tracked until then,
\* and no /progress answer of it is handled (every handled answer rewrites the
\* progress fields of the page).
C11_AsStated ==
    [][ fetchReqs # << >> =>
            \A i \in DownloadIds :
                /\ ~Issued(i)
                /\ ~(\E progress \in ProgressAnswers : ProgressAnswered(i, progress)) ]_vars

\* C12: whenever a /fetch_formats request is outstanding the fetch button is
\* disabled, and at most one /fetch_formats request is outstanding.
C12_FetchDisabled ==
    /\ fetchReqs # << >> => fetchBtn.disabled
    /\ Len(fetchReqs) <= 1

\* a fetch is outstanding on a page that already shows the formats of an
\* earlier fetch
C12_Witness ==
    /\ Len(fetchReqs) = 1
    /\ fetchBtn.disabled
    /\ formatsList # << >>

\* a new download can be started: the formats of a fetch are on the page, one
\* of them is checked, and the download button is shown and enabled
DownloadStartable ==
    /\ ~dnone["formatsCard"]
    /\ checked # 0
    /\ downloadBtn.display = "block"
    /\ ~downloadBtn.disabled

C14_Cosmetic ==
    [][ ResetDownload =>
            /\ dnone'["progressCard"] /\ dnone'["downloadError"]
            /\ \A s \in Sections \ {"progressCard", "downloadError"} : dnone'[s] = dnone[s]
            /\ ~downloadBtn'.disabled
            /\ downloadBtn'.display = downloadBtn.display
            /\ UNCHANGED << controllerVars, netVars, outVars, videoUrl, fetchBtn,
                            videoTitle, formatsList, noFormatsNotice, selected, checked,
                            progressFields, completedFilename, errorMessage >> ]_vars

\* after a reset the timer of the tracked download still runs and a poll of
\* it is in flight, behind a hidden progress card and an enabled button
C14_Witness ==
    /\ currentDownloadId # 0
    /\ activeTimers # {}
    /\ InflightProgress > 0
    /\ downloadReqs = {}
    /\ dnone["progressCard"]
    /\ ~dnone["formatsCard"]
    /\ ~downloadBtn.disabled

\* C15: the answer of a /download request that was sent before the fetch that
\* is now outstanding is still handled: a download_id becomes the tracked id
\* and a new timer is started, a failure shows the inline error and enables
\* the download button; and such an answer does arrive after the fetch has
\* reset the page (the witness).
C15_LateAnswer ==
    [][ fetchReqs # << >> =>
            \A r \in downloadReqs :
                /\ DownloadAnswered(r) =>
                       /\ currentDownloadId' = r.n
                       /\ progressInterval' \in activeTimers'
                       /\ progressInterval' # progressInterval
                /\ \A message \in DownloadErrors :
                       DownloadFailed(r, message) =>
                           /\ ~dnone'["downloadError"]
                           /\ errorMessage' = TextContent(message)
                           /\ ~downloadBtn'.disabled ]_vars

\* No timer was ever started, so no poll was ever sent, and a fetch is
\* outstanding, whose resetUI hid the error view: the error view that is
\* shown was shown by the failure of a /download request after that reset.
C15_Witness ==
    /\ fetchReqs # << >>
    /\ timersCreated = 0
    /\ ~dnone["downloadError"]
    /\ dnone["progressCard"]
    /\ errorMessage # ""

\* C16, as stated: handling a /progress answer clears a timer only if the
\* answer is for the tracked download and its status is completed or error.
C16_AsStated ==
    [][ \A id \in DownloadIds, progress \in ProgressAnswers :
            ProgressAnswered(id, progress) /\ activeTimers' # activeTimers =>
                /\ id = currentDownloadId
                /\ progress \in Terminal ]_vars

\* C17, as stated: the completion view is produced by a completed answer for
\* the tracked download, the one the download-file button opens.
C17_AsStated ==
    [][ \A id \in DownloadIds, progress \in ProgressAnswers :
            ProgressAnswered(id, progress) /\ progress.status = "completed" =>
                /\ ~dnone'["downloadComplete"]
                /\ id = currentDownloadId' ]_vars

\* C18, as stated: at most one of the live progress content, the completion
\* view and the error view is shown.
C18_AsStated ==
    Cardinality({ s \in {"progressContent", "downloadComplete", "downloadError"} :
                      ~dnone[s] }) <= 1

\* C19, as stated: every /download request carries the URL whose fetch
\* rendered the rows the checked format is one of.
C19_AsStated ==
    [][ \A r \in downloadReqs' \ downloadReqs : r.url = videoTitle ]_vars

\* C20: whenever the download button is disabled, a /download request is
\* outstanding or a polling timer is active.
C20_DisabledPending ==
    downloadBtn.disabled => downloadReqs # {} \/ activeTimers # {}

\* the button is disabled for the second download, which is being polled,
\* after the first one ended
C20_Witness ==
    /\ downloadBtn.disabled
    /\ downloadReqs = {}
    /\ currentDownloadId = 2
    /\ progressInterval \in activeTimers
    /\ progressReqs[2] > 0
====
